---- MODULE Spec2Model ----
(***************************************************************************)
(* Rogue DHCP server detector (src/dhcp.py).                               *)
(*                                                                         *)
(* Two threads: the control task (the module-level `while True` loop) and  *)
(* the capture task (the sniff thread started every round, calling parse   *)
(* on each captured frame).  The state is the module's globals             *)
(* (dhcp_servers, dhcp_servers_legal, alerts), the position of the control *)
(* task, the state of the sniff thread, and history variables that record  *)
(* what the Notifier (print + zenity) was asked to show.                   *)
(***************************************************************************)
EXTENDS Naturals, Integers, Sequences, FiniteSets, TLC

VARIABLES
    pc,                  \* position of the control task in the main loop
    thr,                 \* state of the sniff thread of the current round
    timer,               \* the 5 s capture window: "idle" or "ticking"
    dhcp_servers,        \* global set filled by parse (dhcp.py:13, :81)
    dhcp_servers_legal,  \* global baseline set (dhcp.py:77)
    alerts,              \* global list of alerted addresses (dhcp.py:34)
    notifyCount,         \* history: Notifier invocations since process start
    roundNotifies,       \* history: Notifier invocations in the current round
    lastMsg,             \* history: addresses listed by the last message
    lastStatus,          \* history: exit status class of the last os.system
    lost,                \* history: senders of well-formed OFFER/ADVERTISE
                         \*          frames of the current window that parse
                         \*          did not record
    firstRound,          \* history: <<ServerSet>> of the first round
    firstNonEmpty,       \* history: <<ServerSet>> of the first non-empty round
    scenA,               \* history: rounds matched so far against ScenarioA
    scenB,               \* history: rounds matched so far against ScenarioB
    scenR,               \* history: rounds matched so far against ScenarioR
    events,              \* history: what the control task did in this round
    recorded,            \* history: addresses parse recorded from the frames
                         \*          of the current window
    captured,            \* history: while the sniff thread runs, how many
                         \*          frames it has captured in this window (0, 1,
                         \*          2 for more) and the frame when it is one
    committed,           \* history: the baseline step of the current round
                         \*          committed the baseline
    window               \* the capture window as SpecCapture follows it: the
                         \*          entries stored in dhcp_servers, the last two
                         \*          frames captured, and whether sniff still runs;
                         \*          left in its initial state throughout Spec

vars == <<pc, thr, timer, dhcp_servers, dhcp_servers_legal, alerts,
          notifyCount, roundNotifies, lastMsg, lastStatus, lost,
          firstRound, firstNonEmpty, scenA, scenB, scenR, events, recorded, captured,
          committed, window>>

Range(s) == {s[i] : i \in DOMAIN s}

(***************************************************************************)
(* Addresses on the monitored segment.                                     *)
(***************************************************************************)
V4Servers == {"10.0.0.1", "10.0.0.99"}
V6Servers == {"fe80::1"}
Servers == V4Servers \cup V6Servers

\* The placeholder the main loop stores when the first round saw no server.
Placeholder == ""

(***************************************************************************)
(* Python values inside a scapy DHCP option, and the three shapes an entry *)
(* of p[DHCP].options can have: a tuple (name, value, ...), a bare string  *)
(* ('end', 'pad'), or the raw bytes of an option block scapy could not     *)
(* dissect (truncated or invalid).                                         *)
(***************************************************************************)
PyStr(x) == [t |-> "str", s |-> x, n |-> 0]
PyInt(x) == [t |-> "int", s |-> "", n |-> x]

TupleOpt(elems) == [kind |-> "tuple", elems |-> elems, s |-> ""]
StrOpt(x) == [kind |-> "str", elems |-> <<>>, s |-> x]
BytesOpt == [kind |-> "bytes", elems |-> <<>>, s |-> ""]

DISCOVER == 1
OFFER == 2

MsgType(n) == TupleOpt(<<PyStr("message-type"), PyInt(n)>>)
EndOpt == StrOpt("end")

Frame(layer, ip, src, options, dns) ==
    [layer |-> layer, ip |-> ip, src |-> src, options |-> options, dns |-> dns]

\* Frames that can appear on the wire during a capture window.
OfferFrames == {Frame("DHCP", "IP", a, <<MsgType(OFFER), EndOpt>>, FALSE) : a \in V4Servers}
DiscoverFrames == {Frame("DHCP", "IP", "0.0.0.0",
                         <<MsgType(DISCOVER), TupleOpt(<<PyStr("hostname"), PyStr("localhost")>>), EndOpt>>,
                         FALSE)}
\* An ACK (message type 5) to some client that also carries an option with
\* the value 2.
AckFrames == {Frame("DHCP", "IP", a,
                    <<MsgType(5), TupleOpt(<<PyStr("lease_time"), PyInt(2)>>), EndOpt>>,
                    FALSE) : a \in V4Servers}
TruncatedFrames == {Frame("DHCP", "IP", a, <<BytesOpt>>, FALSE) : a \in V4Servers}
OfferThenTruncatedFrames == {Frame("DHCP", "IP", a, <<MsgType(OFFER), BytesOpt>>, FALSE) : a \in V4Servers}
OfferOverIPv6Frames == {Frame("DHCP", "IPv6", a, <<MsgType(OFFER), EndOpt>>, FALSE) : a \in V6Servers}
AdvertiseFrames == {Frame("DHCP6_Advertise", "IPv6", a, <<>>, d) : a \in V6Servers, d \in BOOLEAN}
\* An OFFER whose option block holds the message-type option twice.
RepeatedOfferFrames == {Frame("DHCP", "IP", a, <<MsgType(OFFER), MsgType(OFFER), EndOpt>>, FALSE) :
                           a \in V4Servers}
\* The detector's own SOLICIT, seen by its sniffer.
SolicitFrames == {Frame("DHCP6_Solicit", "IPv6", "fe80::2", <<>>, FALSE)}
\* Traffic that is not DHCP, also from the address of a DHCP server.
OtherFrames == {Frame("other", "IPv6", "fe80::2", <<>>, FALSE),
                Frame("other", "IP", "10.0.0.1", <<>>, FALSE)}

NoFrame == Frame("none", "none", "", <<>>, FALSE)

Frames == OfferFrames \cup DiscoverFrames \cup AckFrames \cup TruncatedFrames
          \cup OfferThenTruncatedFrames \cup OfferOverIPv6Frames
          \cup AdvertiseFrames \cup OtherFrames
          \cup RepeatedOfferFrames \cup SolicitFrames

(***************************************************************************)
(* parse (dhcp.py:15-31).                                                  *)
(***************************************************************************)
\* Python's `x in option` for the three shapes of option.  On bytes a str
\* operand raises TypeError; on a str it is the substring test, and the bare
\* strings scapy produces ('end', 'pad') are shorter than 'message-type'.
InRaises(x, option) == option.kind = "bytes" /\ x.t = "str"
In(x, option) ==
    CASE option.kind = "tuple" -> \E i \in DOMAIN option.elems : option.elems[i] = x
      [] option.kind = "str" -> x.t = "str" /\ option.s = x.s
      [] OTHER -> FALSE

\* Variant of IsOfferOption without the `and 2 in option`.
IsOfferOption_AnyMessageType(option) == In(PyStr("message-type"), option)

\* dhcp.py:21, the test `'message-type' in option and 2 in option`.
IsOfferOption(option) == In(PyStr("message-type"), option) /\ In(PyInt(2), option)

\* dhcp.py:20-22, the loop over p[DHCP].options from index i on.
RECURSIVE ParseOptions(_, _, _)
ParseOptions(p, i, servers) ==
    IF i > Len(p.options) THEN [servers |-> servers, raised |-> FALSE]
    ELSE LET option == p.options[i] IN
         IF InRaises(PyStr("message-type"), option)
         THEN [servers |-> servers, raised |-> TRUE]
         ELSE IF IsOfferOption(option)
         THEN IF p.ip = "IP"
              THEN ParseOptions(p, i + 1, servers \cup {p.src})
              ELSE [servers |-> servers, raised |-> TRUE]   \* p[IP]: IndexError
         ELSE ParseOptions(p, i + 1, servers)

\* dhcp.py:28  p[DHCP6OptDNSDomains] raises when the frame has no such layer.
DnsLookupRaises(p) == ~p.dns

\* Variant of ParseAdvertise that extracts the DNS domains first and
\* without try/except.
ParseAdvertise_Unguarded(p, servers) ==
    IF p.ip # "IPv6" \/ DnsLookupRaises(p)
    THEN [servers |-> servers, raised |-> TRUE]
    ELSE [servers |-> servers \cup {p.src}, raised |-> FALSE]

\* dhcp.py:25-31, the DHCPv6 branch: the address is added first, then the
\* DNS domains are looked up and printed inside try/except.
ParseAdvertise(p, servers) ==
    IF p.ip # "IPv6"
    THEN [servers |-> servers, raised |-> TRUE]             \* p[IPv6]: IndexError
    ELSE LET added == servers \cup {p.src} IN
         IF DnsLookupRaises(p)
         THEN [servers |-> added, raised |-> FALSE]         \* except: pass
         ELSE [servers |-> added, raised |-> FALSE]         \* print(domains)

\* Variant of parse with `else` in place of `elif DHCP6_Advertise in p`.
parse_ElseAdvertise(p, servers) ==
    IF p.layer = "DHCP" THEN ParseOptions(p, 1, servers)
    ELSE ParseAdvertise(p, servers)

\* The result of parse(p) on the global set `servers`: the set afterwards
\* and whether an exception left parse.
parse(p, servers) ==
    IF p.layer = "DHCP" THEN ParseOptions(p, 1, servers)
    ELSE IF p.layer = "DHCP6_Advertise" THEN ParseAdvertise(p, servers)
    ELSE [servers |-> servers, raised |-> FALSE]

(***************************************************************************)
(* alert (dhcp.py:36-49).                                                  *)
(***************************************************************************)
\* The orders in which iterating a Python set can yield its members.
Orderings(S) == {o \in [1..Cardinality(S) -> S] : Range(o) = S}

\* Exit status classes of os.system(...): it returns a status, never raises.
SystemStatus == {"ok", "failed"}

\* Variants of alert with a plausible slip each, used to test that the
\* properties below depend on the code of alert.
\* - the early return of dhcp.py:38-39 is missing
alert_NoEarlyReturn(new_dhcp_servers, alerts0) ==
    {[alerts |-> alerts0 \o order, shown |-> <<order>>, status |-> st] :
        order \in Orderings(new_dhcp_servers), st \in SystemStatus}

\* - only the addresses not yet alerted are shown and recorded
alert_OnlyNew(new_dhcp_servers, alerts0) ==
    IF new_dhcp_servers \ Range(alerts0) = {}
    THEN {[alerts |-> alerts0, shown |-> <<>>, status |-> "none"]}
    ELSE {[alerts |-> alerts0 \o order, shown |-> <<order>>, status |-> st] :
             order \in Orderings(new_dhcp_servers \ Range(alerts0)), st \in SystemStatus}

\* - alerts.extend of dhcp.py:49 is missing
alert_NoRecord(new_dhcp_servers, alerts0) ==
    IF new_dhcp_servers \ Range(alerts0) = {}
    THEN {[alerts |-> alerts0, shown |-> <<>>, status |-> "none"]}
    ELSE {[alerts |-> alerts0, shown |-> <<order>>, status |-> st] :
             order \in Orderings(new_dhcp_servers), st \in SystemStatus}

\* - the list is replaced (alerts = list(...)) instead of extended
alert_Replace(new_dhcp_servers, alerts0) ==
    IF new_dhcp_servers \ Range(alerts0) = {}
    THEN {[alerts |-> alerts0, shown |-> <<>>, status |-> "none"]}
    ELSE {[alerts |-> order, shown |-> <<order>>, status |-> st] :
             order \in Orderings(new_dhcp_servers), st \in SystemStatus}

\* - the list is extended only when os.system reported success
alert_RecordOnSuccess(new_dhcp_servers, alerts0) ==
    IF new_dhcp_servers \ Range(alerts0) = {}
    THEN {[alerts |-> alerts0, shown |-> <<>>, status |-> "none"]}
    ELSE {[alerts |-> IF st = "ok" THEN alerts0 \o order ELSE alerts0,
            shown |-> <<order>>, status |-> st] :
             order \in Orderings(new_dhcp_servers), st \in SystemStatus}

\* - the early return tests new_dhcp_servers == set(alerts)
alert_EqualityTest(new_dhcp_servers, alerts0) ==
    IF new_dhcp_servers = Range(alerts0)
    THEN {[alerts |-> alerts0, shown |-> <<>>, status |-> "none"]}
    ELSE {[alerts |-> alerts0 \o order, shown |-> <<order>>, status |-> st] :
             order \in Orderings(new_dhcp_servers), st \in SystemStatus}

\* The possible results of alert(new_dhcp_servers) when the global list is
\* alerts0: the list afterwards, the messages handed to the Notifier (each
\* the sequence of addresses joined into it) and the status of os.system.
alert(new_dhcp_servers, alerts0) ==
    IF new_dhcp_servers \ Range(alerts0) = {}
    THEN {[alerts |-> alerts0, shown |-> <<>>, status |-> "none"]}
    ELSE {[alerts |-> alerts0 \o order, shown |-> <<order>>, status |-> st] :
             order \in Orderings(new_dhcp_servers), st \in SystemStatus}

(***************************************************************************)
(* Scenarios of the specification, as sequences of per-round ServerSets.   *)
(***************************************************************************)
ScenarioA == << {}, {"10.0.0.1"}, {"10.0.0.1", "10.0.0.99"} >>
ScenarioB == << {"10.0.0.1"}, {"10.0.0.1", "10.0.0.99"}, {"10.0.0.1", "10.0.0.99"} >>
\* A rogue server answers, stays silent for a round, and answers again.
ScenarioR == << {"10.0.0.1"}, {"10.0.0.1", "10.0.0.99"}, {"10.0.0.1"}, {"10.0.0.1", "10.0.0.99"} >>

\* Progress of a scenario tracker when a round delivers ServerSet s:
\* n rounds matched so far; -1 once the run has left the scenario.
Track(scen, n, s) ==
    IF n >= 0 /\ n < Len(scen) /\ scen[n + 1] = s THEN n + 1 ELSE -1

(***************************************************************************)
(* Initial state: the module-level assignments (dhcp.py:13, 34, 77).       *)
(***************************************************************************)
Init ==
    /\ pc = "reset"
    /\ thr = "unstarted"
    /\ timer = "idle"
    /\ dhcp_servers = {}
    /\ dhcp_servers_legal = {}
    /\ alerts = <<>>
    /\ notifyCount = 0
    /\ roundNotifies = 0
    /\ lastMsg = <<>>
    /\ lastStatus = "none"
    /\ lost = {}
    /\ firstRound = <<>>
    /\ firstNonEmpty = <<>>
    /\ scenA = 0
    /\ scenB = 0
    /\ scenR = 0
    /\ events = <<>>
    /\ recorded = {}
    /\ captured = [n |-> 0, p |-> NoFrame]
    /\ committed = FALSE
    /\ window = [slots |-> <<>>, prev |-> NoFrame, last |-> NoFrame, alive |-> TRUE]

history == <<notifyCount, roundNotifies, lastMsg, lastStatus, firstRound,
             firstNonEmpty, scenA, scenB, scenR, window>>

(***************************************************************************)
(* Control task: one action per statement of the main loop.                *)
(***************************************************************************)
\* Variant of ResetServers without the assignment of dhcp.py:81.
ResetServers_NoReset ==
    /\ pc = "reset"
    /\ roundNotifies' = 0
    /\ lost' = {}
    /\ events' = <<>>
    /\ committed' = FALSE
    /\ pc' = "start"
    /\ UNCHANGED <<thr, timer, dhcp_servers, dhcp_servers_legal, alerts, notifyCount,
                   lastMsg, lastStatus, firstRound, firstNonEmpty, scenA, scenB, scenR,
                   recorded, captured, window>>

\* dhcp.py:81  dhcp_servers = set()
ResetServers ==
    /\ pc = "reset"
    /\ dhcp_servers' = {}
    /\ roundNotifies' = 0
    /\ lost' = {}
    /\ events' = <<>>
    /\ committed' = FALSE
    /\ pc' = "start"
    /\ UNCHANGED <<thr, timer, dhcp_servers_legal, alerts, notifyCount, lastMsg,
                   lastStatus, firstRound, firstNonEmpty, scenA, scenB, scenR,
                   recorded, captured, window>>

\* dhcp.py:84-85  thr = Thread(...sniff(timeout=5, prn=parse)); thr.start()
StartCapture ==
    /\ pc = "start"
    /\ thr' = "running"
    /\ timer' = "ticking"
    /\ pc' = "probe4"
    /\ events' = Append(events, "capture")
    /\ recorded' = {}
    /\ captured' = [n |-> 0, p |-> NoFrame]
    /\ UNCHANGED <<dhcp_servers, dhcp_servers_legal, alerts, lost, history, committed>>

(***************************************************************************)
(* dhcp_discover (dhcp.py:51-74): the DHCPv4 DISCOVER as the program       *)
(* builds it.  An address literal is written as its parts between the      *)
(* dots, so that '0.0.0.0' is <<"0", "0", "0", "0">>.                      *)
(***************************************************************************)
\* The decimal numbers among the parts of the program's address literals.
DecimalParts == {"0", "255"}

\* socket.inet_aton on a dotted literal: it is an address when each of its
\* four parts is a number.
IsAddress(parts) == Len(parts) = 4 /\ \A i \in DOMAIN parts : parts[i] \in DecimalParts

\* The value of an IP source/destination field given as a string: the
\* address when the string is an address literal, and otherwise a host name
\* that the library hands to the resolver.
IPField(parts) ==
    IF IsAddress(parts) THEN [kind |-> "address", parts |-> parts]
    ELSE [kind |-> "hostname", parts |-> parts]

PyList(xs) == [t |-> "list", s |-> "", n |-> 0, items |-> xs]

\* dhcp.py:54-61
DiscoverV4Frame ==
    [ether_dst |-> "ff:ff:ff:ff:ff:ff",
     ip_src    |-> IPField(<<"0", "", "0", "0">>),
     ip_dst    |-> IPField(<<"255", "255", "255", "255">>),
     sport     |-> 68,
     dport     |-> 67,
     options   |-> << TupleOpt(<<PyStr("message-type"), PyStr("discover")>>),
                      TupleOpt(<<PyStr("hostname"), PyStr("localhost")>>),
                      TupleOpt(<<PyStr("param_req_list"),
                                 PyList(<<PyInt(1), PyInt(3), PyInt(6)>>)>>),
                      StrOpt("end") >>]

\* The outcomes of building and transmitting one probe: the packet
\* constructors and sendp are library calls that return or raise (address
\* resolution of a field value, interface down, no permission).
ProbeOutcomes == {"sent", "raised"}

\* dhcp.py:54-62, called from the loop at :88.  Nothing in the loop catches
\* an exception, so a raise ends the control task.
SendDiscoverV4 ==
    /\ pc = "probe4"
    /\ \E outcome \in ProbeOutcomes :
          /\ pc' = IF outcome = "sent" THEN "probe6" ELSE "crashed"
          /\ events' = IF outcome = "sent" THEN Append(events, "v4") ELSE events
    /\ UNCHANGED <<thr, timer, dhcp_servers, dhcp_servers_legal, alerts, lost, history,
                   recorded, captured, committed>>

\* Variant of SendSolicitV6 after which the loop goes on without thr.join().
SendSolicitV6_SkipJoin ==
    /\ pc = "probe6"
    /\ \E outcome \in ProbeOutcomes :
          /\ pc' = IF outcome = "sent" THEN "baseline" ELSE "crashed"
          /\ events' = IF outcome = "sent" THEN Append(events, "v6") ELSE events
    /\ UNCHANGED <<thr, timer, dhcp_servers, dhcp_servers_legal, alerts, lost, history,
                   recorded, captured, committed>>

\* dhcp.py:65-74
SendSolicitV6 ==
    /\ pc = "probe6"
    /\ \E outcome \in ProbeOutcomes :
          /\ pc' = IF outcome = "sent" THEN "join" ELSE "crashed"
          /\ events' = IF outcome = "sent" THEN Append(events, "v6") ELSE events
    /\ UNCHANGED <<thr, timer, dhcp_servers, dhcp_servers_legal, alerts, lost, history,
                   recorded, captured, committed>>

\* Variant of Join that does not wait for the sniff thread.
Join_NoWait ==
    /\ pc = "join"
    /\ pc' = "baseline"
    /\ scenA' = Track(ScenarioA, scenA, dhcp_servers)
    /\ scenB' = Track(ScenarioB, scenB, dhcp_servers)
    /\ scenR' = Track(ScenarioR, scenR, dhcp_servers)
    /\ firstRound' = IF firstRound = <<>> THEN <<dhcp_servers>> ELSE firstRound
    /\ firstNonEmpty' = IF firstNonEmpty = <<>> /\ dhcp_servers # {}
                        THEN <<dhcp_servers>> ELSE firstNonEmpty
    /\ events' = Append(events, "join")
    /\ UNCHANGED <<thr, timer, dhcp_servers, dhcp_servers_legal, alerts, lost,
                   notifyCount, roundNotifies, lastMsg, lastStatus, recorded, captured,
                   committed, window>>

\* Variant of Join that returns only when the sniff thread has ended
\* normally (it waits for a result that a failed thread never posts).
Join_WaitsForResult ==
    /\ pc = "join"
    /\ thr = "finished"
    /\ pc' = "baseline"
    /\ scenA' = Track(ScenarioA, scenA, dhcp_servers)
    /\ scenB' = Track(ScenarioB, scenB, dhcp_servers)
    /\ scenR' = Track(ScenarioR, scenR, dhcp_servers)
    /\ firstRound' = IF firstRound = <<>> THEN <<dhcp_servers>> ELSE firstRound
    /\ firstNonEmpty' = IF firstNonEmpty = <<>> /\ dhcp_servers # {}
                        THEN <<dhcp_servers>> ELSE firstNonEmpty
    /\ events' = Append(events, "join")
    /\ UNCHANGED <<thr, timer, dhcp_servers, dhcp_servers_legal, alerts, lost,
                   notifyCount, roundNotifies, lastMsg, lastStatus, recorded, captured,
                   committed, window>>

\* dhcp.py:91  thr.join(): returns once the sniff thread has ended, normally
\* or by an exception.  The history variables record the round's ServerSet.
Join ==
    /\ pc = "join"
    /\ thr \in {"finished", "died"}
    /\ pc' = "baseline"
    /\ scenA' = Track(ScenarioA, scenA, dhcp_servers)
    /\ scenB' = Track(ScenarioB, scenB, dhcp_servers)
    /\ scenR' = Track(ScenarioR, scenR, dhcp_servers)
    /\ firstRound' = IF firstRound = <<>> THEN <<dhcp_servers>> ELSE firstRound
    /\ firstNonEmpty' = IF firstNonEmpty = <<>> /\ dhcp_servers # {}
                        THEN <<dhcp_servers>> ELSE firstNonEmpty
    /\ events' = Append(events, "join")
    /\ UNCHANGED <<thr, timer, dhcp_servers, dhcp_servers_legal, alerts, lost,
                   notifyCount, roundNotifies, lastMsg, lastStatus, recorded, captured,
                   committed, window>>

\* Variant of BaselineValue without the `or set([""])`.
BaselineValue_NoPlaceholder(servers) == servers

\* Variant of BaselineValue with the operands of `or` exchanged.
BaselineValue_PlaceholderOnly(servers) == {Placeholder}

\* dhcp.py:95  dhcp_servers.copy() or set([""])
BaselineValue(servers) == IF servers # {} THEN servers ELSE {Placeholder}

\* Variant of InitBaseline without the test `if not dhcp_servers_legal`.
InitBaseline_Refresh ==
    /\ pc = "baseline"
    /\ dhcp_servers_legal' = BaselineValue(dhcp_servers)
    /\ committed' = TRUE
    /\ pc' = "compare"
    /\ events' = Append(events, "baseline")
    /\ UNCHANGED <<thr, timer, dhcp_servers, alerts, lost, history, recorded, captured>>

\* dhcp.py:94-96
InitBaseline ==
    /\ pc = "baseline"
    /\ dhcp_servers_legal' = IF dhcp_servers_legal = {}
                             THEN BaselineValue(dhcp_servers)
                             ELSE dhcp_servers_legal
    /\ committed' = (dhcp_servers_legal = {})
    /\ pc' = "compare"
    /\ events' = Append(events, "baseline")
    /\ UNCHANGED <<thr, timer, dhcp_servers, alerts, lost, history, recorded, captured>>

\* Variant of RogueCandidates without the subtraction of the baseline.
RogueCandidates_NoBaseline == dhcp_servers

\* dhcp.py:99  the rogue candidates of the round
RogueCandidates == dhcp_servers \ dhcp_servers_legal

\* dhcp.py:99-100, with the call of alert
Compare ==
    /\ pc = "compare"
    /\ IF RogueCandidates # {}
       THEN \E r \in alert(RogueCandidates, alerts) :
               /\ alerts' = r.alerts
               /\ notifyCount' = notifyCount + Len(r.shown)
               /\ roundNotifies' = roundNotifies + Len(r.shown)
               /\ lastMsg' = IF r.shown # <<>> THEN r.shown[1] ELSE lastMsg
               /\ lastStatus' = IF r.shown # <<>> THEN r.status ELSE lastStatus
       ELSE UNCHANGED <<alerts, notifyCount, roundNotifies, lastMsg, lastStatus>>
    /\ pc' = "sleep"
    /\ events' = Append(events, "compare")
    /\ UNCHANGED <<thr, timer, dhcp_servers, dhcp_servers_legal, lost,
                   firstRound, firstNonEmpty, scenA, scenB, scenR, recorded, captured,
                   committed, window>>

\* dhcp.py:103  sleep(10): twice the capture timeout, so the window of the
\* round has elapsed when the next round begins.
Sleep ==
    /\ pc = "sleep"
    /\ timer = "idle"
    /\ pc' = "reset"
    /\ UNCHANGED <<thr, timer, dhcp_servers, dhcp_servers_legal, alerts, lost, history,
                   events, recorded, captured, committed>>

(***************************************************************************)
(* Capture task: sniff(timeout=5, prn=parse) (dhcp.py:84).                 *)
(***************************************************************************)
\* A frame is a well-formed server response when it is an OFFER over IPv4
\* whose option block dissected completely, or an ADVERTISE over IPv6.
WellFormedResponse(p) ==
    \/ /\ p.layer = "DHCP"
       /\ p.ip = "IP"
       /\ \A i \in DOMAIN p.options : p.options[i].kind # "bytes"
       /\ \E i \in DOMAIN p.options : p.options[i] = MsgType(OFFER)
    \/ /\ p.layer = "DHCP6_Advertise"
       /\ p.ip = "IPv6"

\* The senders of well-formed responses of the window missing from the
\* ServerSet `servers`, once frame p has arrived.
Lost(p, servers) == (lost \cup (IF WellFormedResponse(p) THEN {p.src} ELSE {})) \ servers

\* Variant of FrameCaptured in which the capture task itself records the
\* sender of the frame in the alerted list.
FrameCaptured_WritesAlerts ==
    /\ thr = "running"
    /\ \E p \in Frames :
          LET r == parse(p, dhcp_servers) IN
          /\ dhcp_servers' = r.servers
          /\ thr' = IF r.raised THEN "died" ELSE "running"
          /\ lost' = Lost(p, r.servers)
          /\ recorded' = recorded \cup parse(p, {}).servers
          /\ captured' = IF r.raised THEN [n |-> 0, p |-> NoFrame]
                          ELSE IF captured.n = 0 THEN [n |-> 1, p |-> p]
                          ELSE [n |-> 2, p |-> NoFrame]
          /\ alerts' = IF p.src \in Servers \ Range(alerts)
                        THEN Append(alerts, p.src) ELSE alerts
    /\ UNCHANGED <<pc, timer, dhcp_servers_legal, history, events, committed>>

\* A frame arrives while the sniffer runs: sniff calls parse on it; an
\* exception leaving parse leaves sniff and ends the thread.
FrameCaptured ==
    /\ thr = "running"
    /\ \E p \in Frames :
          LET r == parse(p, dhcp_servers) IN
          /\ dhcp_servers' = r.servers
          /\ thr' = IF r.raised THEN "died" ELSE "running"
          /\ lost' = Lost(p, r.servers)
          /\ recorded' = recorded \cup parse(p, {}).servers
          /\ captured' = IF r.raised THEN [n |-> 0, p |-> NoFrame]
                          ELSE IF captured.n = 0 THEN [n |-> 1, p |-> p]
                          ELSE [n |-> 2, p |-> NoFrame]
    /\ UNCHANGED <<pc, timer, dhcp_servers_legal, alerts, history, events, committed>>

\* A frame arrives in the window after the sniff thread has died: nobody
\* captures it.
FrameMissed ==
    /\ thr = "died"
    /\ timer = "ticking"
    /\ \E p \in Frames : lost' = Lost(p, dhcp_servers)
    /\ UNCHANGED <<pc, thr, timer, dhcp_servers, dhcp_servers_legal, alerts, history,
                   events, recorded, captured, committed>>

\* The 5 s timeout of sniff elapses.
WindowElapsed ==
    /\ timer = "ticking"
    /\ timer' = "idle"
    /\ thr' = IF thr = "running" THEN "finished" ELSE thr
    /\ captured' = [n |-> 0, p |-> NoFrame]
    /\ UNCHANGED <<pc, dhcp_servers, dhcp_servers_legal, alerts, lost, history,
                   events, recorded, committed>>

Next ==
    \/ ResetServers
    \/ StartCapture
    \/ SendDiscoverV4
    \/ SendSolicitV6
    \/ Join
    \/ InitBaseline
    \/ Compare
    \/ Sleep
    \/ FrameCaptured
    \/ FrameMissed
    \/ WindowElapsed

Spec == Init /\ [][Next]_vars

AlertedSet == Range(alerts)

TypeOK ==
    /\ pc \in {"reset", "start", "probe4", "probe6", "join", "baseline",
               "compare", "sleep", "crashed"}
    /\ thr \in {"unstarted", "running", "finished", "died"}
    /\ timer \in {"idle", "ticking"}
    /\ dhcp_servers \subseteq Servers
    /\ dhcp_servers_legal \subseteq Servers \cup {Placeholder}
    /\ AlertedSet \subseteq Servers
    /\ notifyCount \in Nat
    /\ roundNotifies \in 0..1

(***************************************************************************)
(* One capture window, with the ServerSet as the container stores it.      *)
(* dhcp_servers is a Python set: the entries it holds are written here as  *)
(* the sequence window.slots, and dhcp_servers.add as the operation on it. *)
(* SpecCapture feeds sniff one frame after the other; the main variables   *)
(* stay in their initial state.                                            *)
(***************************************************************************)
\* Variant of set_add that stores the element whether or not it is held
\* already (a list with append in place of the set).
set_add_Append(slots, x) == Append(slots, x)

\* set.add (dhcp.py:22, :25): the element is stored unless it is held.
set_add(slots, x) == IF x \in Range(slots) THEN slots ELSE Append(slots, x)

\* The arguments of the calls dhcp_servers.add(...) that parse(p) makes for
\* the options of a DHCPv4 frame from index i on, in order (dhcp.py:20-22).
RECURSIVE OptionAdds(_, _)
OptionAdds(p, i) ==
    IF i > Len(p.options) THEN <<>>
    ELSE LET option == p.options[i] IN
         IF InRaises(PyStr("message-type"), option) THEN <<>>
         ELSE IF IsOfferOption(option)
         THEN IF p.ip = "IP" THEN <<p.src>> \o OptionAdds(p, i + 1) ELSE <<>>
         ELSE OptionAdds(p, i + 1)

\* The arguments of the calls dhcp_servers.add(...) of parse(p), in order.
AddCalls(p) ==
    IF p.layer = "DHCP" THEN OptionAdds(p, 1)
    ELSE IF p.layer = "DHCP6_Advertise" /\ p.ip = "IPv6" THEN <<p.src>>
    ELSE <<>>

\* The entries after the calls dhcp_servers.add(x) for the x of xs, in order.
RECURSIVE AddAll(_, _)
AddAll(slots, xs) ==
    IF xs = <<>> THEN slots ELSE AddAll(set_add(slots, Head(xs)), Tail(xs))

EmptyWindow == [slots |-> <<>>, prev |-> NoFrame, last |-> NoFrame, alive |-> TRUE]

mainVars == <<pc, thr, timer, dhcp_servers, dhcp_servers_legal, alerts,
              notifyCount, roundNotifies, lastMsg, lastStatus, lost,
              firstRound, firstNonEmpty, scenA, scenB, scenR, events, recorded, captured,
              committed>>

\* sniff captures the next frame of the window and calls parse on it; an
\* exception leaving parse ends sniff.
WindowFrame ==
    /\ window.alive
    /\ \E p \in Frames :
          window' = [slots |-> AddAll(window.slots, AddCalls(p)),
                     prev  |-> window.last,
                     last  |-> p,
                     alive |-> ~parse(p, Range(window.slots)).raised]
    /\ UNCHANGED mainVars

\* The next round: dhcp_servers = set() and a new sniff (dhcp.py:81-85).
WindowRestart ==
    /\ window # EmptyWindow
    /\ window' = EmptyWindow
    /\ UNCHANGED mainVars

NextCapture ==
    \/ WindowFrame
    \/ WindowRestart

SpecCapture == Init /\ [][NextCapture]_vars

(***************************************************************************)
(* Properties.                                                             *)
(***************************************************************************)
A1 == "10.0.0.1"
A99 == "10.0.0.99"
NoOp(alerts0) == [alerts |-> alerts0, shown |-> <<>>, status |-> "none"]

\* C1 (as stated): once the baseline step of a round has run, the baseline
\* is unset while every round so far had an empty ServerSet, and otherwise
\* equals the ServerSet of the first round whose ServerSet was non-empty.
C1_BaselineIsFirstNonEmptyRound ==
    (firstRound # <<>> /\ pc # "baseline") =>
        dhcp_servers_legal = IF firstNonEmpty = <<>> THEN {} ELSE firstNonEmpty[1]

\* C1 (amended): the baseline is committed by the baseline step of the very
\* first round and never again: it is that round's ServerSet when non-empty
\* and the placeholder set {""} when empty; before that step it is unset.
C1_BaselineCommittedInFirstRound ==
    /\ firstRound = <<>> => dhcp_servers_legal = {}
    /\ (firstRound # <<>> /\ pc # "baseline") =>
          dhcp_servers_legal = IF firstRound[1] = {} THEN {""} ELSE firstRound[1]
    /\ (firstRound # <<>> /\ pc = "baseline") =>
          dhcp_servers_legal \in {{}, IF firstRound[1] = {} THEN {""} ELSE firstRound[1]}

\* A later round saw servers while the baseline is still the placeholder of
\* an empty first round.
C1_Witness ==
    /\ firstRound = << {} >>
    /\ firstNonEmpty # <<>>
    /\ pc = "sleep"
    /\ dhcp_servers_legal = {""}

\* C2 (as stated): Scenario A leaves the baseline unset after round 1, sets
\* it to {10.0.0.1} in round 2 without any Notifier invocation in rounds 1
\* and 2, and round 3 invokes the Notifier once with a message listing
\* exactly 10.0.0.99, leaving AlertedSet = {10.0.0.99}.
C2_ScenarioA_AsStated ==
    /\ (scenA = 1 /\ pc = "sleep") => (dhcp_servers_legal = {} /\ notifyCount = 0)
    /\ (scenA = 2 /\ pc = "sleep") => (dhcp_servers_legal = {A1} /\ notifyCount = 0)
    /\ (scenA = 3 /\ pc = "sleep") =>
          (roundNotifies = 1 /\ lastMsg = <<A99>> /\ AlertedSet = {A99})

\* C2 (amended): in Scenario A the baseline is the placeholder set {""}
\* from round 1 on, round 1 invokes no Notifier, round 2 invokes it once
\* with a message listing exactly 10.0.0.1 (AlertedSet = {10.0.0.1}), and
\* round 3 invokes it once with a message listing 10.0.0.1 and 10.0.0.99
\* (AlertedSet = {10.0.0.1, 10.0.0.99}).
C2_ScenarioA ==
    /\ (scenA = 1 /\ pc = "sleep") => (dhcp_servers_legal = {""} /\ notifyCount = 0)
    /\ (scenA = 2 /\ pc = "sleep") =>
          /\ dhcp_servers_legal = {""}
          /\ roundNotifies = 1 /\ notifyCount = 1
          /\ lastMsg = <<A1>>
          /\ AlertedSet = {A1}
    /\ (scenA = 3 /\ pc = "sleep") =>
          /\ dhcp_servers_legal = {""}
          /\ roundNotifies = 1 /\ notifyCount = 2
          /\ Len(lastMsg) = 2 /\ Range(lastMsg) = {A1, A99}
          /\ AlertedSet = {A1, A99}

\* The third round of Scenario A has ended.
C2_Witness == scenA = 3 /\ pc = "sleep"

\* C3: no step of a round raises an error that terminates the detection
\* loop: the control task is never ended by an exception.
C3_NoStepTerminatesLoop == pc # "crashed"

\* C4: every well-formed OFFER/ADVERTISE frame of a capture window is
\* recorded in the round's ServerSet, also when a frame whose parsing fails
\* arrived before it in the same window.
C4_NoResponseLost == lost = {}

\* C5: a round whose rogue candidates are all in AlertedSet already invokes
\* no Notifier and records nothing, so an alerted address never triggers a
\* second alert.
C5_NoSecondAlert ==
    [][(pc = "compare" /\ RogueCandidates \subseteq AlertedSet) =>
          (notifyCount' = notifyCount /\ alerts' = alerts)]_vars

\* The rogue 10.0.0.99 was alerted, was absent for a round, answered again,
\* and that round ended without a Notifier invocation.
C5_Witness ==
    /\ scenR = 4 /\ pc = "sleep"
    /\ A99 \in RogueCandidates /\ A99 \in AlertedSet
    /\ roundNotifies = 0

\* C6: Scenario B: with baseline {10.0.0.1}, a round discovering
\* {10.0.0.1, 10.0.0.99} invokes the Notifier once and leaves
\* AlertedSet = {10.0.0.99}; the next round discovering the same set invokes
\* no Notifier and leaves the alerted addresses unchanged.
C6_ScenarioB ==
    /\ (scenB = 1 /\ pc = "sleep") =>
          (dhcp_servers_legal = {A1} /\ notifyCount = 0 /\ alerts = <<>>)
    /\ (scenB = 2 /\ pc = "sleep") =>
          /\ dhcp_servers_legal = {A1}
          /\ roundNotifies = 1 /\ notifyCount = 1
          /\ alerts = <<A99>>
    /\ (scenB = 3 /\ pc = "sleep") =>
          /\ dhcp_servers_legal = {A1}
          /\ roundNotifies = 0 /\ notifyCount = 1
          /\ alerts = <<A99>>

\* The second comparison round of Scenario B has ended.
C6_Witness == scenB = 3 /\ pc = "sleep"

\* C7: AlertedSet only grows: no step removes an entry of the alerted list,
\* so the alerted addresses of an earlier round are among those of any
\* later round.
C7_AlertedSetOnlyGrows ==
    [][/\ AlertedSet \subseteq AlertedSet'
       /\ Len(alerts) <= Len(alerts')
       /\ SubSeq(alerts', 1, Len(alerts)) = alerts]_vars

\* The alerted list has grown in two different rounds.
C7_Witness == notifyCount = 2 /\ Cardinality(AlertedSet) >= 2

\* C8: evaluating candidates that are all in AlertedSet has no effect (no
\* message, alerted list unchanged), and evaluating any candidates a second
\* time invokes no Notifier.
C8_KnownCandidatesNoEffect ==
    /\ \A c \in SUBSET Servers :
          c \subseteq AlertedSet => alert(c, alerts) = {NoOp(alerts)}
    /\ \A c \in SUBSET Servers : \A r \in alert(c, alerts) :
          alert(c, r.alerts) = {NoOp(r.alerts)}

\* The comparison of the round called alert with candidates that were all
\* alerted before, and nothing was shown.
C8_Witness ==
    /\ pc = "sleep"
    /\ RogueCandidates # {} /\ RogueCandidates \subseteq AlertedSet
    /\ roundNotifies = 0

\* C9: evaluating candidates of which at least one is not in AlertedSet
\* invokes the Notifier exactly once, with one message listing every
\* candidate once, and afterwards AlertedSet is the old AlertedSet united
\* with all candidates.
C9_NewCandidateAlertsOnce ==
    /\ \A c \in SUBSET Servers :
          ~(c \subseteq AlertedSet) =>
             \A r \in alert(c, alerts) :
                /\ Len(r.shown) = 1
                /\ Range(r.shown[1]) = c /\ Len(r.shown[1]) = Cardinality(c)
                /\ Range(r.alerts) = AlertedSet \cup c
    /\ (pc = "sleep" /\ roundNotifies = 1) =>
          (Range(lastMsg) = RogueCandidates /\ RogueCandidates \subseteq AlertedSet)

\* A message was shown for candidates of which one had been alerted before:
\* the alerted list holds that address twice.
C9_Witness ==
    /\ pc = "sleep" /\ roundNotifies = 1
    /\ Len(alerts) > Cardinality(AlertedSet)

\* C10: a failed Notifier dispatch does not end the control task, and the
\* candidates of the call are recorded in the alerted list exactly as when
\* the dispatch succeeds.
C10_DispatchFailureStillRecords ==
    /\ \A c \in SUBSET Servers : \A r \in alert(c, alerts) :
          r.status = "failed" =>
             /\ c \subseteq Range(r.alerts)
             /\ [r EXCEPT !.status = "ok"] \in alert(c, alerts)
    /\ (roundNotifies = 1 /\ lastStatus = "failed") =>
          (pc \in {"sleep", "reset"} /\ Range(lastMsg) \subseteq AlertedSet)

\* The dispatch of the round's alert failed.
C10_Witness == pc = "sleep" /\ roundNotifies = 1 /\ lastStatus = "failed"

\* The steps of the control task.
ControlStep ==
    \/ ResetServers \/ StartCapture \/ SendDiscoverV4 \/ SendSolicitV6
    \/ Join \/ InitBaseline \/ Compare \/ Sleep

IsPrefix(s, t) == Len(s) <= Len(t) /\ SubSeq(t, 1, Len(s)) = s
Count(x, s) == Cardinality({i \in DOMAIN s : s[i] = x})
RoundOrder == <<"capture", "v4", "v6", "join", "baseline", "compare">>
HasOfferOption(p) == \E i \in DOMAIN p.options : p.options[i] = MsgType(OFFER)

\* C11: the baseline is set at most once: once it is established no step
\* changes its contents, so the loop never returns to the state without a
\* baseline.
C11_BaselineImmutable ==
    [][dhcp_servers_legal # {} => dhcp_servers_legal' = dhcp_servers_legal]_vars

\* A round after the first ended with a ServerSet that differs from the
\* established baseline and from the first round's ServerSet.
C11_Witness ==
    /\ pc = "sleep"
    /\ firstRound # <<>> /\ firstRound[1] # {} /\ dhcp_servers_legal = firstRound[1]
    /\ dhcp_servers # {} /\ dhcp_servers # dhcp_servers_legal

\* C12 (as stated): evaluate is called only in a state where a baseline
\* learned from observed servers exists.
C12_EvaluateOnlyWithLearnedBaseline ==
    (pc = "sleep" /\ RogueCandidates # {}) =>
        (dhcp_servers_legal # {} /\ dhcp_servers_legal \subseteq Servers)

\* C12 (amended): the comparison of a round is made after the baseline step
\* of that round, so only with a committed baseline, which is a set of
\* observed servers or the placeholder set {""}; no round ends with the
\* baseline unset, and no Notifier invocation precedes the baseline.
C12_ComparisonAgainstCommittedBaseline ==
    /\ (pc \in {"compare", "sleep"} \/ notifyCount > 0) =>
          /\ dhcp_servers_legal # {}
          /\ dhcp_servers_legal \subseteq Servers \/ dhcp_servers_legal = {""}
    /\ (pc = "sleep" /\ RogueCandidates # {}) => RogueCandidates \subseteq AlertedSet

\* The Notifier was invoked in a round whose baseline is the placeholder.
C12_Witness == pc = "sleep" /\ roundNotifies = 1 /\ dhcp_servers_legal = {""}

\* C13: in every round the control task starts the capture task, then sends
\* the v4 and the v6 probe, then joins the capture task, and only then
\* reads the ServerSet for the baseline step and the comparison: whenever
\* one of these two reads is next, the capture task has ended.
C13_RoundOrder ==
    /\ IsPrefix(events, RoundOrder)
    /\ pc = "baseline" => (events = SubSeq(RoundOrder, 1, 4) /\ thr \in {"finished", "died"})
    /\ pc = "compare" => (events = SubSeq(RoundOrder, 1, 5) /\ thr \in {"finished", "died"})
    /\ pc = "sleep" => events = RoundOrder

\* The comparison is next, after a capture that recorded a server.
C13_Witness == pc = "compare" /\ dhcp_servers # {} /\ thr = "finished"

\* C14: a step that is not a step of the control task (a step of the
\* capture task or of its timer) changes neither the baseline nor the
\* alerted list nor what the Notifier was given.
C14_OnlyControlTaskWrites ==
    [][pc' = pc => /\ dhcp_servers_legal' = dhcp_servers_legal
                   /\ alerts' = alerts
                   /\ notifyCount' = notifyCount]_vars

\* The capture task has recorded a rogue server in the ServerSet of a round
\* while baseline and alerted list hold earlier results.
C14_Witness ==
    /\ thr = "running" /\ pc = "join"
    /\ dhcp_servers_legal # {} /\ alerts # <<>>
    /\ dhcp_servers \ (dhcp_servers_legal \cup AlertedSet) # {}

\* C15: a capture task runs only between its start and the join of its own
\* round (or after the control task has ended): none is running when the
\* ServerSet is reset and the next capture task is started.
C15_OneCaptureTask ==
    thr = "running" => pc \in {"probe4", "probe6", "join", "crashed"}

\* The capture task of an earlier round has finished and the next one is
\* about to be started.
C15_Witness == pc = "start" /\ thr = "finished" /\ firstRound # <<>>

\* C16: from the start of a round's capture on, the ServerSet holds exactly
\* the addresses recorded from the frames captured in that round's window.
C16_ServerSetRebuilt ==
    events # <<>> => dhcp_servers = recorded

\* The third round of ScenarioR: 10.0.0.99 was recorded in the round before
\* and is not in this round's ServerSet.
C16_Witness == scenR = 3 /\ pc = "sleep" /\ dhcp_servers = {A1}

\* C17: parse adds the source address of a DHCPv4 frame if and only if the
\* frame has the option message-type = OFFER; a frame with another message
\* type adds nothing.
C17_OfferIffRecorded ==
    /\ \A p \in Frames :
          (p.layer = "DHCP" /\ p.ip = "IP") =>
             parse(p, dhcp_servers).servers =
                dhcp_servers \cup (IF HasOfferOption(p) THEN {p.src} ELSE {})
    /\ (captured.n = 1 /\ captured.p.layer = "DHCP" /\ captured.p.ip = "IP") =>
          dhcp_servers = IF HasOfferOption(captured.p) THEN {captured.p.src} ELSE {}

\* The only frame captured so far in the window is a DISCOVER, and the
\* ServerSet is empty.
C17_Witness ==
    /\ thr = "running"
    /\ captured.n = 1 /\ captured.p \in DiscoverFrames
    /\ dhcp_servers = {}

\* C18: parse records the source address of every DHCPv6 ADVERTISE frame
\* and raises nothing, whether or not the DNS-domain extraction succeeds.
C18_AdvertiseAlwaysRecorded ==
    /\ \A p \in AdvertiseFrames :
          LET r == parse(p, dhcp_servers) IN
          r.servers = dhcp_servers \cup {p.src} /\ ~r.raised
    /\ (captured.n = 1 /\ captured.p \in AdvertiseFrames) =>
          (dhcp_servers = {captured.p.src} /\ thr = "running")

\* The only frame captured so far is an ADVERTISE without DNS-domain
\* option: its sender is recorded and the capture goes on.
C18_Witness ==
    /\ thr = "running"
    /\ captured.n = 1 /\ captured.p \in AdvertiseFrames /\ ~captured.p.dns
    /\ captured.p.src \in dhcp_servers

\* C19: the loop has no terminal state: in every state the control task has
\* a step to take, or waits for the capture window, which elapses.
C19_NoTerminalState ==
    \/ ENABLED ControlStep
    \/ (pc \in {"join", "sleep"} /\ timer = "ticking")

\* C20: in every round exactly one DHCPv4 DISCOVER and exactly one DHCPv6
\* SOLICIT are transmitted: once the probe phase of a round is over, each
\* has been sent once.
C20_BothProbesEveryRound ==
    pc \in {"join", "baseline", "compare", "sleep", "crashed"} =>
        (Count("v4", events) = 1 /\ Count("v6", events) = 1)

\* The option names of a DHCP options list, in order.
OptionNames(options) ==
    [i \in DOMAIN options |->
        IF options[i].kind = "tuple" THEN options[i].elems[1].s ELSE options[i].s]

\* C21: the DHCPv4 DISCOVER that dhcp_discover builds has link-layer
\* broadcast destination, IPv4 source 0.0.0.0 and destination
\* 255.255.255.255, UDP source port 68 and destination port 67, and the
\* options message-type = DISCOVER, hostname, parameter-request-list and
\* the terminator; stated for every round whose DHCPv4 probe has been
\* attempted.
C21_DiscoverFrameFields ==
    (events # <<>> /\ pc # "probe4") =>
        /\ DiscoverV4Frame.ether_dst = "ff:ff:ff:ff:ff:ff"
        /\ DiscoverV4Frame.ip_src = [kind |-> "address", parts |-> <<"0", "0", "0", "0">>]
        /\ DiscoverV4Frame.ip_dst = [kind |-> "address", parts |-> <<"255", "255", "255", "255">>]
        /\ DiscoverV4Frame.sport = 68 /\ DiscoverV4Frame.dport = 67
        /\ OptionNames(DiscoverV4Frame.options) =
              <<"message-type", "hostname", "param_req_list", "end">>
        /\ DiscoverV4Frame.options[1].elems[2] = PyStr("discover")

\* C22: the ServerSet of a capture window contains no duplicate addresses:
\* however many frames of one server the window holds, and however many
\* matching options a frame holds, the server is stored once; and for each
\* further frame the stored entries are exactly the ServerSet that parse
\* yields.
C22_ServerSetNoDuplicates ==
    /\ \A i, j \in DOMAIN window.slots : window.slots[i] = window.slots[j] => i = j
    /\ \A p \in Frames :
          Range(AddAll(window.slots, AddCalls(p))) = parse(p, Range(window.slots)).servers

\* The window holds an OFFER of a server and then an OFFER of the same
\* server with two matching options, and the ServerSet has one entry.
C22_Witness ==
    /\ window.prev \in OfferFrames /\ window.last \in RepeatedOfferFrames
    /\ window.prev.src = window.last.src
    /\ window.slots = <<window.last.src>>

\* C23: no address of the baseline is ever reported as rogue: AlertedSet
\* (which holds the addresses of every Notifier message so far) and the
\* last message are disjoint from the baseline, and the ServerSet of the
\* baseline-establishing round is never alerted.
C23_BaselineNeverAlerted ==
    /\ AlertedSet \cap dhcp_servers_legal = {}
    /\ Range(lastMsg) \cap dhcp_servers_legal = {}
    /\ firstRound # <<>> => firstRound[1] \cap AlertedSet = {}

\* A round in which a server of the learned baseline answered together
\* with a rogue server has invoked the Notifier.
C23_Witness ==
    /\ pc = "sleep" /\ roundNotifies = 1
    /\ firstRound # <<>> /\ firstRound[1] = dhcp_servers_legal
    /\ dhcp_servers \cap dhcp_servers_legal # {}

\* C24: in the round that establishes the baseline the Notifier is not
\* invoked and AlertedSet stays as it was (empty, since nothing is alerted
\* while there is no baseline), whatever the ServerSet of that round is.
C24_EstablishingRoundSilent ==
    /\ dhcp_servers_legal = {} => (alerts = <<>> /\ notifyCount = 0)
    /\ committed => (roundNotifies = 0 /\ notifyCount = 0 /\ alerts = <<>>)

\* The round that established the baseline saw every server and has made
\* its comparison.
C24_Witness == committed /\ pc = "sleep" /\ dhcp_servers = Servers

\* C25: once the comparison of a round has run, every rogue candidate of
\* the round is in AlertedSet.
C25_CandidatesRecordedInRound ==
    events = RoundOrder => RogueCandidates \subseteq AlertedSet

\* A round after the one that learned the baseline from servers has
\* recorded its rogue candidates, which were all new.
C25_Witness ==
    /\ pc = "sleep" /\ ~committed /\ roundNotifies = 1
    /\ dhcp_servers_legal \subseteq Servers
    /\ RogueCandidates = AlertedSet

\* C26: every Notifier invocation adds at least one address to AlertedSet
\* that was not in it, so there are at most as many invocations as alerted
\* addresses, which are all addresses outside the baseline.
C26_EachInvocationAddsNewAddress ==
    /\ \A c \in SUBSET Servers : \A r \in alert(c, alerts) :
          r.shown # <<>> => (Len(r.shown) = 1 /\ Range(r.alerts) \ AlertedSet # {})
    /\ notifyCount <= Cardinality(AlertedSet)
    /\ AlertedSet \subseteq Servers \ dhcp_servers_legal

\* Three invocations, one for each of the three addresses.
C26_Witness == notifyCount = 3 /\ AlertedSet = Servers

\* C27: with an established baseline and a ServerSet that is a subset of
\* it (the empty ServerSet included), no step invokes the Notifier or
\* changes the baseline or the alerted list.
C27_SubsetRoundNoEffect ==
    [][(dhcp_servers_legal # {} /\ dhcp_servers \subseteq dhcp_servers_legal) =>
          /\ dhcp_servers_legal' = dhcp_servers_legal
          /\ alerts' = alerts
          /\ notifyCount' = notifyCount]_vars

\* A round without any answer, after a baseline learned from servers and
\* an earlier alert, has ended without a Notifier invocation.
C27_Witness ==
    /\ pc = "sleep" /\ ~committed /\ roundNotifies = 0
    /\ dhcp_servers = {}
    /\ dhcp_servers_legal # {} /\ dhcp_servers_legal \subseteq Servers
    /\ alerts # <<>>

\* C28: an error raised in the capture task ends only that task: the join
\* of the control task returns, the control task always has its next step
\* (or waits for the window to elapse), and the ServerSet of the round is
\* what parse recorded up to the error.
C28_CaptureErrorContained ==
    thr = "died" =>
        /\ pc = "join" => ENABLED Join
        /\ pc # "crashed" => (ENABLED ControlStep \/ timer = "ticking")
        /\ events # <<>> => dhcp_servers = recorded

\* The capture task of the first round died after 10.0.0.1 was recorded;
\* the round committed {10.0.0.1} as baseline and the next round has begun.
C28_Witness ==
    /\ thr = "died" /\ pc = "start"
    /\ scenB = 1 /\ dhcp_servers_legal = {A1}

\* C29: parse on a frame that is neither a DHCPv4 message nor a DHCPv6
\* ADVERTISE (the detector's own SOLICIT, traffic that is not DHCP) leaves
\* the ServerSet unchanged and raises nothing.
C29_OtherFramesIgnored ==
    /\ \A p \in Frames :
          p.layer \notin {"DHCP", "DHCP6_Advertise"} =>
             parse(p, dhcp_servers) = [servers |-> dhcp_servers, raised |-> FALSE]
    /\ (captured.n = 1 /\ captured.p.layer \notin {"DHCP", "DHCP6_Advertise"}) =>
          (dhcp_servers = {} /\ thr = "running")

\* The only frame captured so far is the detector's own SOLICIT.
C29_Witness ==
    /\ thr = "running"
    /\ captured.n = 1 /\ captured.p \in SolicitFrames
    /\ dhcp_servers = {}

\* C30 (as stated): the alerted list never holds an address twice.
C30_NoDuplicateAlerts ==
    \A i, j \in DOMAIN alerts : alerts[i] = alerts[j] => i = j

\* C30 (amended): the alerted list can hold an address more than once,
\* since a call with a new candidate appends every candidate; such a call
\* appends each candidate exactly once and a call without a new candidate
\* appends nothing, so an address occurs at most once per Notifier
\* invocation and at most as often as there are alerted addresses.
C30_OncePerInvocation ==
    /\ \A c \in SUBSET Servers : \A r \in alert(c, alerts) :
          LET added == SubSeq(r.alerts, Len(alerts) + 1, Len(r.alerts)) IN
          /\ IsPrefix(alerts, r.alerts)
          /\ added = IF r.shown # <<>> THEN r.shown[1] ELSE <<>>
          /\ \A a \in Servers : Count(a, added) = IF r.shown # <<>> /\ a \in c THEN 1 ELSE 0
    /\ \A a \in Servers : Count(a, alerts) <= notifyCount
    /\ \A a \in Servers : Count(a, alerts) <= Cardinality(AlertedSet)

\* With a baseline learned from servers, an address is held twice.
C30_Witness ==
    /\ dhcp_servers_legal # {} /\ dhcp_servers_legal \subseteq Servers
    /\ \E a \in Servers : Count(a, alerts) = 2

====
